---- MODULE Spec2Model ----
(***************************************************************************)
(* Loot chests of rpg-cli (src/src/item/chest.rs): generation of a chest   *)
(* at a location, battle loot, dropping the hero's belongings into a       *)
(* tombstone chest, merging two chests and picking a chest up.             *)
(*                                                                         *)
(* Option<T> is a sequence of length at most one: None is <<>>, Some(x) is *)
(* <<x>>.  A Key is a pair <<name, ring kind>>; an item is a record with   *)
(* its key and its level (0 for items without one).  A HashMap is a        *)
(* function whose domain is the set of keys present.                       *)
(***************************************************************************)
EXTENDS Integers, Sequences, FiniteSets, TLC

VARIABLES
    game,      \* game::Game: gold, player, location, inventory, ring_pool
    chest,     \* Option<Chest>: the chest the caller holds (a tombstone)
    pc,        \* "idle", or the operation that has just returned
    pre,       \* game and chest as they were when that operation was called
    ret,       \* what that operation returned
    pool_log   \* the ring pool a game started with, and the rings drawn from it

vars == <<game, chest, pc, pre, ret, pool_log>>

(***************************************************************************)
(* Bounds                                                                  *)
(***************************************************************************)
MaxDistance == 5
MaxItemChoice == 1
MaxGold == 2
MaxEquipLevel == 2
MaxItems == 3

(***************************************************************************)
(* Values                                                                  *)
(***************************************************************************)
None == <<>>
Some(x) == <<x>>

RingKinds == {"Evade", "Chest", "Speed"}

key_of(name) == <<name, "">>
ring_key(ring) == <<"Ring", ring>>
KeySword == key_of("Sword")
KeyShield == key_of("Shield")

Potion(level) == [key |-> key_of("Potion"), level |-> level]
Remedy == [key |-> key_of("Remedy"), level |-> 0]
Escape == [key |-> key_of("Escape"), level |-> 0]
Ether(level) == [key |-> key_of("Ether"), level |-> level]
Stone(name) == [key |-> key_of(name), level |-> 0]
ring_item(ring) == [key |-> ring_key(ring), level |-> 0]

sword(level) == [kind |-> "sword", level |-> level]
shield(level) == [kind |-> "shield", level |-> level]

default_chest == [items |-> <<>>, sword |-> None, shield |-> None, gold |-> 0]

Max(a, b) == IF a >= b THEN a ELSE b

\* Rust's integer division truncates toward zero (b > 0 here).
TruncDiv(a, b) == IF a >= 0 THEN a \div b ELSE -((-a) \div b)

(***************************************************************************)
(* Collaborators of chest.rs (player, equipment, game)                     *)
(***************************************************************************)
enemies_evaded(g) == Some("Evade") \in {g.left_ring, g.right_ring}

double_chests(g) == Some("Chest") \in {g.left_ring, g.right_ring}

gold_gained(g, base) == base

rounded_level(g) == Max(1, TruncDiv(g.level, 5) * 5)

is_upgrade_from(self, maybe_other) ==
    IF maybe_other # None THEN self.level > maybe_other[1].level ELSE TRUE

add_item(inventory, item) ==
    LET k == item.key
        entry == IF k \in DOMAIN inventory THEN inventory[k] ELSE <<>>
    IN  [x \in DOMAIN inventory \cup {k} |->
            IF x = k THEN Append(entry, item) ELSE inventory[x]]

(***************************************************************************)
(* chest.rs: helpers                                                       *)
(***************************************************************************)
\* faulty variant: an equal level counts as an upgrade
maybe_upgrade_on_tie(current, other) ==
    IF other # None
          /\ (current = None \/ other[1].level >= current[1].level)
    THEN [current |-> other, other |-> None, upgraded |-> TRUE]
    ELSE [current |-> current, other |-> None, upgraded |-> FALSE]

maybe_upgrade(current, other) ==
    IF other # None /\ is_upgrade_from(other[1], current)
    THEN [current |-> other, other |-> None, upgraded |-> TRUE]
    ELSE [current |-> current, other |-> None, upgraded |-> FALSE]

\* faulty variant: the level is not raised to 1 near home
random_equipment_level_zero(distance, choice) ==
    LET level == TruncDiv(distance, 5) * 5
        table == << <<Some(sword(level)), None>>,
                    <<None, Some(shield(level))>>,
                    <<Some(sword(level + 5)), None>>,
                    <<None, Some(shield(level + 5))>>,
                    <<Some(sword(100)), None>> >>
    IN  table[choice]

\* choice is the entry the weighted choice picked (every weight is positive).
random_equipment(distance, choice) ==
    LET level == Max(1, TruncDiv(distance, 5) * 5)
        table == << <<Some(sword(level)), None>>,
                    <<None, Some(shield(level))>>,
                    <<Some(sword(level + 5)), None>>,
                    <<None, Some(shield(level + 5))>>,
                    <<Some(sword(100)), None>> >>
    IN  table[choice]

random_item(level, index) ==
    LET choices == << Potion(level), Remedy, Escape, Ether(level),
                      Stone("HealthStone"), Stone("MagicStone"),
                      Stone("PowerStone"), Stone("SpeedStone"),
                      Stone("LevelStone") >>
    IN  choices[index]

\* faulty variant: the ring is read from the pool and left in it
random_ring_not_taken(pool, pick) ==
    IF pick # None
    THEN [ring |-> IF pick[1] \in pool THEN pick ELSE None, pool |-> pool]
    ELSE [ring |-> None, pool |-> pool]

\* faulty variant: the ring is removed from the pool and not returned
random_ring_lost(pool, pick) ==
    IF pick # None
    THEN [ring |-> None, pool |-> pool \ {pick[1]}]
    ELSE [ring |-> None, pool |-> pool]

\* pick is what iter().choose() gave: None on an empty pool, else a member.
random_ring(pool, pick) ==
    IF pick # None
    THEN [ring |-> IF pick[1] \in pool THEN pick ELSE None,
          pool |-> pool \ {pick[1]}]
    ELSE [ring |-> None, pool |-> pool]

\* faulty variant: the slack is one level too wide
cheap_victory_wide(g) == g.level > g.distance + 11

\* faulty variant: the gate also fires at level = distance + 10
cheap_victory_at_slack(g) == g.level >= g.distance + 10

cheap_victory(g) == g.level > g.distance + 10

RECURSIVE item_loop(_, _, _, _)
item_loop(items, rolls, level, attempts) ==
    IF attempts = 0 THEN items
    ELSE LET roll == Head(rolls)
             pushed == IF roll # 0
                       THEN Append(items, random_item(level, roll))
                       ELSE items
         IN  item_loop(pushed, Tail(rolls), level, attempts - 1)

item_chest_attempts(g) == IF double_chests(g) THEN 3 * 2 ELSE 3

(***************************************************************************)
(* Chest::generate.  r holds what the randomizer gave: for gold, equipment *)
(* and ring the first roll and the second one (made with the chest ring    *)
(* when the first failed), the equipment chosen, the ring chosen, and per  *)
(* item attempt 0 (no item) or the index random_item chose.                *)
(***************************************************************************)
generate(g, r) ==
    IF enemies_evaded(g) \/ cheap_victory(g)
    THEN [value |-> None, ring_pool |-> g.ring_pool, ring |-> None,
          rolled |-> FALSE,
          gold_chest |-> FALSE, equipment_chest |-> FALSE,
          ring_roll |-> FALSE, ring_chest |-> FALSE, item_chest |-> FALSE]
    ELSE
    LET double == double_chests(g)
        gold_chest == r.gold[1] \/ (double /\ r.gold[2])
        equipment_chest == r.equipment[1] \/ (double /\ r.equipment[2])
        ring_roll == r.ring[1] \/ (double /\ r.ring[2])
        attempts == item_chest_attempts(g)
        c1 == IF gold_chest
              THEN [default_chest EXCEPT
                       !.gold = gold_gained(g, g.level + g.distance)]
              ELSE default_chest
        equipment == random_equipment(g.distance, r.equipment_choice)
        c2 == IF equipment_chest
              THEN [c1 EXCEPT !.sword = equipment[1], !.shield = equipment[2]]
              ELSE c1
        taken == IF ring_roll
                 THEN random_ring(g.ring_pool, r.ring_pick)
                 ELSE [ring |-> None, pool |-> g.ring_pool]
        ring_chest == ring_roll /\ taken.ring # None
        c3 == IF ring_chest
              THEN [c2 EXCEPT !.items = Append(@, ring_item(taken.ring[1]))]
              ELSE c2
        item_chest == \E i \in 1..attempts : r.items[i] # 0
        c4 == [c3 EXCEPT !.items =
                  item_loop(@, r.items, rounded_level(g), attempts)]
    IN  [value |-> IF gold_chest \/ equipment_chest \/ item_chest \/ ring_chest
                   THEN Some(c4) ELSE None,
         ring_pool |-> taken.pool, ring |-> taken.ring, rolled |-> TRUE,
         gold_chest |-> gold_chest, equipment_chest |-> equipment_chest,
         ring_roll |-> ring_roll, ring_chest |-> ring_chest,
         item_chest |-> item_chest]

battle_loot(g, r) ==
    LET out == generate(g, r)
    IN  [out EXCEPT !.value =
            IF @ # None THEN Some([@[1] EXCEPT !.gold = 0]) ELSE None]

(***************************************************************************)
(* Chest::drop.  order is the order in which the inventory HashMap yields  *)
(* its keys when drained.                                                  *)
(***************************************************************************)
RECURSIVE flatten(_, _)
flatten(inventory, order) ==
    IF order = <<>> THEN <<>>
    ELSE inventory[Head(order)] \o flatten(inventory, Tail(order))

\* faulty variant: the hero keeps their gold
drop_keeps_gold(g, order) ==
    LET items0 == flatten(g.inventory, order)
        items1 == IF g.left_ring # None
                  THEN Append(items0, ring_item(g.left_ring[1]))
                  ELSE items0
        items2 == IF g.right_ring # None
                  THEN Append(items1, ring_item(g.right_ring[1]))
                  ELSE items1
    IN  [value |-> [items |-> items2, sword |-> g.sword,
                    shield |-> g.shield, gold |-> g.gold],
         game |-> [g EXCEPT !.inventory = <<>>, !.sword = None,
                            !.shield = None, !.left_ring = None,
                            !.right_ring = None]]

drop(g, order) ==
    LET items0 == flatten(g.inventory, order)
        items1 == IF g.left_ring # None
                  THEN Append(items0, ring_item(g.left_ring[1]))
                  ELSE items0
        items2 == IF g.right_ring # None
                  THEN Append(items1, ring_item(g.right_ring[1]))
                  ELSE items1
    IN  [value |-> [items |-> items2, sword |-> g.sword,
                    shield |-> g.shield, gold |-> g.gold],
         game |-> [g EXCEPT !.inventory = <<>>, !.sword = None,
                            !.shield = None, !.left_ring = None,
                            !.right_ring = None, !.gold = 0]]

(***************************************************************************)
(* Chest::pick_up                                                          *)
(***************************************************************************)
insert(map, k, v) == [x \in DOMAIN map \cup {k} |-> IF x = k THEN v ELSE map[x]]

\* faulty variant: the loop ends after the first item
drain_items_first(item_counts, inventory, items) ==
    IF items = <<>> THEN [item_counts |-> item_counts, inventory |-> inventory]
    ELSE LET item == Head(items)
             k == item.key
             n == IF k \in DOMAIN item_counts THEN item_counts[k] ELSE 0
         IN  [item_counts |-> insert(item_counts, k, n + 1),
              inventory |-> add_item(inventory, item)]

RECURSIVE drain_items(_, _, _)
drain_items(item_counts, inventory, items) ==
    IF items = <<>> THEN [item_counts |-> item_counts, inventory |-> inventory]
    ELSE LET item == Head(items)
             k == item.key
             n == IF k \in DOMAIN item_counts THEN item_counts[k] ELSE 0
         IN  drain_items(insert(item_counts, k, n + 1),
                         add_item(inventory, item), Tail(items))

pick_up(self, g) ==
    LET s == maybe_upgrade(g.sword, self.sword)
        counts1 == IF s.upgraded THEN insert(<<>>, KeySword, 1) ELSE <<>>
        h == maybe_upgrade(g.shield, self.shield)
        counts2 == IF h.upgraded THEN insert(counts1, KeyShield, 1) ELSE counts1
        d == drain_items(counts2, g.inventory, self.items)
    IN  [self |-> [self EXCEPT !.sword = s.other, !.shield = h.other,
                               !.items = <<>>],
         game |-> [g EXCEPT !.sword = s.current, !.shield = h.current,
                            !.inventory = d.inventory,
                            !.gold = @ + self.gold],
         value |-> [item_counts |-> d.item_counts, gold |-> self.gold]]

(***************************************************************************)
(* Chest::extend                                                           *)
(***************************************************************************)
\* faulty variant: the shield is not compared
extend_sword_only(self, other) ==
    LET s == maybe_upgrade(self.sword, other.sword)
    IN  [items |-> self.items \o other.items,
         sword |-> s.current, shield |-> self.shield,
         gold |-> self.gold + other.gold]

extend(self, other) ==
    LET s == maybe_upgrade(self.sword, other.sword)
        h == maybe_upgrade(self.shield, other.shield)
    IN  [items |-> self.items \o other.items,
         sword |-> s.current, shield |-> h.current,
         gold |-> self.gold + other.gold]

(***************************************************************************)
(* The state a game is constructed in (Game::new)                          *)
(***************************************************************************)
new_game ==
    [gold |-> 0, level |-> 1, distance |-> 0, sword |-> None, shield |-> None,
     left_ring |-> None, right_ring |-> None, inventory |-> <<>>,
     ring_pool |-> RingKinds]

Option(S) == {None} \cup {Some(x) : x \in S}

equipped_rings(g) ==
    {x \in RingKinds : Some(x) \in {g.left_ring, g.right_ring}}

(***************************************************************************)
(* What the randomizer can give to one call of generate                    *)
(***************************************************************************)
rolls_made(g) == ~(enemies_evaded(g) \/ cheap_victory(g))

first_rolls(g) == IF rolls_made(g) THEN BOOLEAN ELSE {FALSE}

\* a || b: the second roll is made only when the first one failed
second_rolls(g, first) ==
    IF rolls_made(g) /\ double_chests(g) /\ ~first THEN BOOLEAN ELSE {FALSE}

equipment_choices(rolled) == IF rolled THEN 1..5 ELSE {1}

ring_picks(pool) == IF pool = {} THEN {None} ELSE {Some(x) : x \in pool}

item_rolls(g) ==
    [1..item_chest_attempts(g) ->
        IF rolls_made(g) THEN 0..MaxItemChoice ELSE {0}]

log_ring(log, ring) ==
    IF ring # None THEN [log EXCEPT !.drawn = Append(@, ring[1])] ELSE log

(***************************************************************************)
(* Actions: one call each, made when the previous call has returned        *)
(***************************************************************************)
Loot(name) ==
       \E g1 \in first_rolls(game) : \E g2 \in second_rolls(game, g1) :
       \E e1 \in first_rolls(game) : \E e2 \in second_rolls(game, e1) :
       \E ec \in equipment_choices(e1 \/ e2) :
       \E r1 \in first_rolls(game) : \E r2 \in second_rolls(game, r1) :
       \E rp \in (IF r1 \/ r2 THEN ring_picks(game.ring_pool) ELSE {None}) :
       \E ir \in item_rolls(game) :
       \E r \in {[gold |-> <<g1, g2>>, equipment |-> <<e1, e2>>,
                  ring |-> <<r1, r2>>, equipment_choice |-> ec,
                  ring_pick |-> rp, items |-> ir]} :
       \E out \in {IF name = "battle_loot"
                   THEN battle_loot(game, r) ELSE generate(game, r)} :
              /\ game' = [game EXCEPT !.ring_pool = out.ring_pool]
              /\ pc' = name
              /\ pre' = [game |-> game, chest |-> chest, other |-> None]
              /\ ret' = out
              /\ pool_log' = log_ring(pool_log, out.ring)
              /\ UNCHANGED chest

Generate ==
    /\ pc = "idle"
    /\ Loot("generate")

BattleLoot ==
    /\ pc = "idle"
    /\ Loot("battle_loot")

RandomRing ==
    /\ pc = "idle"
    /\ \E pick \in ring_picks(game.ring_pool) :
       \E out \in {random_ring(game.ring_pool, pick)} :
              /\ game' = [game EXCEPT !.ring_pool = out.pool]
              /\ pc' = "random_ring"
              /\ pre' = [game |-> game, chest |-> chest, other |-> None]
              /\ ret' = [value |-> out.ring]
              /\ pool_log' = log_ring(pool_log, out.ring)
              /\ UNCHANGED chest

Continue ==
    /\ pc # "idle"
    /\ pc' = "idle"
    /\ pre' = None
    /\ ret' = None
    /\ UNCHANGED <<game, chest, pool_log>>

(***************************************************************************)
(* Generation: games at several depths and levels, with and without the    *)
(* evade and chest rings equipped                                          *)
(***************************************************************************)
Distances == {0, MaxDistance - 1, MaxDistance}
Levels == {1, MaxDistance + 10, MaxDistance + 11}

GenGames ==
    {[new_game EXCEPT !.level = l, !.distance = d, !.left_ring = lr,
                      !.right_ring = rr,
                      !.ring_pool = {x \in RingKinds : Some(x) \notin {lr, rr}}] :
        l \in Levels, d \in Distances,
        lr \in Option(RingKinds), rr \in Option({"Evade"})}

InitGen ==
    /\ game \in {g \in GenGames : g.left_ring # g.right_ring \/ g.left_ring = None}
    /\ chest = None
    /\ pc = "idle"
    /\ pre = None
    /\ ret = None
    /\ pool_log = [seeded |-> game.ring_pool, drawn |-> <<>>]

NextGen == Generate \/ BattleLoot \/ RandomRing \/ Continue

SpecGen == InitGen /\ [][NextGen]_vars

(***************************************************************************)
(* Drop, pick up, merge                                                    *)
(***************************************************************************)
\* the orders in which a HashMap can yield its keys
key_orders(inventory) ==
    {o \in [1..Cardinality(DOMAIN inventory) -> DOMAIN inventory] :
        \A i, j \in DOMAIN o : i # j => o[i] # o[j]}

RECURSIVE inventory_len(_, _)
inventory_len(inventory, keys) ==
    IF keys = {} THEN 0
    ELSE LET k == CHOOSE x \in keys : TRUE
         IN  Len(inventory[k]) + inventory_len(inventory, keys \ {k})

Drop ==
    /\ pc = "idle"
    /\ \E order \in key_orders(game.inventory) :
       \E out \in {drop(game, order)} :
              /\ game' = out.game
              /\ chest' = Some(out.value)
              /\ pc' = "drop"
              /\ pre' = [game |-> game, chest |-> chest, other |-> None]
              /\ ret' = [value |-> out.value]
              /\ UNCHANGED pool_log

\* everything a hero and the chest they hold own: the bounds are on these
held_items(g, c) ==
    inventory_len(g.inventory, DOMAIN g.inventory)
       + Cardinality(equipped_rings(g))
       + (IF c # None THEN Len(c[1].items) ELSE 0)

held_gold(g, c) == g.gold + (IF c # None THEN c[1].gold ELSE 0)

PickUp ==
    /\ pc = "idle"
    /\ chest # None
    /\ held_gold(game, chest) <= MaxGold
    /\ \E out \in {pick_up(chest[1], game)} :
              /\ game' = out.game
              /\ chest' = Some(out.self)
              /\ pc' = "pick_up"
              /\ pre' = [game |-> game, chest |-> chest, other |-> None]
              /\ ret' = out.value
              /\ UNCHANGED pool_log

RECURSIVE inventory_of(_)
inventory_of(items) ==
    IF items = <<>> THEN <<>>
    ELSE add_item(inventory_of(SubSeq(items, 1, Len(items) - 1)),
                  items[Len(items)])

LootItems == {Potion(1), Escape}
ItemSeqs(n) == UNION {[1..k -> LootItems] : k \in 0..n}
Swords == {sword(l) : l \in 1..MaxEquipLevel}
Shields == {shield(l) : l \in 1..MaxEquipLevel}

Chests(n) ==
    [items : ItemSeqs(n), sword : Option(Swords), shield : Option(Shields),
     gold : 0..MaxGold]

Extend ==
    /\ pc = "idle"
    /\ chest # None
    /\ \E other \in Chests(MaxItems) :
          /\ held_gold(game, chest) + other.gold <= MaxGold
          /\ held_items(game, chest) + Len(other.items) <= MaxItems
          /\ chest' = Some(extend(chest[1], other))
          /\ pc' = "extend"
          /\ pre' = [game |-> game, chest |-> chest, other |-> Some(other)]
          /\ ret' = None
          /\ UNCHANGED <<game, pool_log>>

(***************************************************************************)
(* Loot handling: heroes with and without gold, equipment, rings and       *)
(* items, holding no chest or a tombstone left by an earlier hero          *)
(***************************************************************************)
LootGames ==
    {[new_game EXCEPT !.gold = gd, !.sword = sw, !.shield = sh,
                      !.left_ring = lr, !.right_ring = rr,
                      !.inventory = inventory_of(inv),
                      !.ring_pool = {x \in RingKinds : Some(x) \notin {lr, rr}}] :
        gd \in 0..MaxGold, sw \in Option(Swords), sh \in Option(Shields),
        lr \in Option({"Speed"}), rr \in Option({"Chest"}),
        inv \in ItemSeqs(MaxItems)}

InitLoot ==
    /\ game \in LootGames
    /\ chest \in Option(Chests(MaxItems))
    /\ held_gold(game, chest) <= MaxGold
    /\ held_items(game, chest) <= MaxItems
    /\ pc = "idle"
    /\ pre = None
    /\ ret = None
    /\ pool_log = [seeded |-> game.ring_pool, drawn |-> <<>>]

NextLoot == Drop \/ PickUp \/ Continue

SpecLoot == InitLoot /\ [][NextLoot]_vars

(***************************************************************************)
(* Merging: a chest at a location, extended by the chests that arrive      *)
(***************************************************************************)
InitMerge ==
    /\ game = new_game
    /\ chest \in {Some(c) : c \in Chests(MaxItems)}
    /\ pc = "idle"
    /\ pre = None
    /\ ret = None
    /\ pool_log = [seeded |-> game.ring_pool, drawn |-> <<>>]

NextMerge == Extend \/ Continue

SpecMerge == InitMerge /\ [][NextMerge]_vars

(***************************************************************************)
(* Properties                                                              *)
(***************************************************************************)
Range(seq) == {seq[i] : i \in DOMAIN seq}

\* how many items of a sequence have key k / are the item x
KeyCount(items, k) == Cardinality({i \in DOMAIN items : items[i].key = k})
ItemCount(items, x) == Cardinality({i \in DOMAIN items : items[i] = x})

\* how many items an inventory holds under key k
Held(inventory, k) == IF k \in DOMAIN inventory THEN Len(inventory[k]) ELSE 0

\* how many times item x is in an inventory
RECURSIVE HeldItem(_, _, _)
HeldItem(inventory, keys, x) ==
    IF keys = {} THEN 0
    ELSE LET k == CHOOSE y \in keys : TRUE
         IN  ItemCount(inventory[k], x) + HeldItem(inventory, keys \ {k}, x)

Tally(item_counts, k) == IF k \in DOMAIN item_counts THEN item_counts[k] ELSE 0

Looted == pc \in {"generate", "battle_loot"}

\* C1: pick_up conserves gold and items: the hero's gold afterwards is their
\* gold before plus the chest's gold, which is also the gold returned; for
\* every key the inventory count afterwards is the count before plus the
\* number of the chest's items with that key; and the returned tally of the
\* keys other than Sword and Shield is the chest's per-key item count.
PickUpConserves ==
    pc = "pick_up" =>
        LET g0 == pre.game
            c0 == pre.chest[1]
            keys == DOMAIN g0.inventory \cup DOMAIN game.inventory
                       \cup {x.key : x \in Range(c0.items)}
                       \cup DOMAIN ret.item_counts
        IN  /\ game.gold = g0.gold + c0.gold
            /\ ret.gold = c0.gold
            /\ \A k \in keys :
                  Held(game.inventory, k)
                     = Held(g0.inventory, k) + KeyCount(c0.items, k)
            /\ \A k \in keys \ {KeySword, KeyShield} :
                  Tally(ret.item_counts, k) = KeyCount(c0.items, k)

PickUpConservesWitness ==
    /\ pc = "pick_up"
    /\ pre.game.gold > 0
    /\ pre.chest[1].gold > 0
    /\ KeyCount(pre.chest[1].items, key_of("Potion")) = 2
    /\ Held(pre.game.inventory, key_of("Potion")) = 1
    /\ Held(game.inventory, key_of("Potion")) = 3

\* C2: after pick_up the chest is empty: no items, gold 0, no sword and no
\* shield.
ChestEmptyAfterPickUp ==
    pc = "pick_up" =>
        /\ chest[1].items = <<>>
        /\ chest[1].gold = 0
        /\ chest[1].sword = None
        /\ chest[1].shield = None

\* the better of two optional pieces, the first one on a tie
Better(mine, theirs) ==
    IF theirs = None THEN mine
    ELSE IF mine = None THEN theirs
    ELSE IF theirs[1].level > mine[1].level THEN theirs ELSE mine

\* C3: after self.extend(other), self's gold is the sum of both chests'
\* gold, self's items are its own items followed by all of other's, and for
\* sword and shield each self holds the higher-level piece of the two (its
\* own on a tie or when other has none); the losing piece is in no list.
ExtendConserves ==
    pc = "extend" =>
        LET s == pre.chest[1]
            o == pre.other[1]
            c == chest[1]
        IN  /\ c.gold = s.gold + o.gold
            /\ c.items = s.items \o o.items
            /\ c.sword = Better(s.sword, o.sword)
            /\ c.shield = Better(s.shield, o.shield)

ExtendConservesWitness ==
    /\ pc = "extend"
    /\ pre.chest[1].gold > 0 /\ pre.other[1].gold > 0
    /\ pre.chest[1].items # <<>> /\ pre.other[1].items # <<>>
    /\ pre.chest[1].sword = Some(sword(2)) /\ pre.other[1].sword = Some(sword(1))
    /\ pre.chest[1].shield = Some(shield(1)) /\ pre.other[1].shield = Some(shield(2))
    /\ chest[1].sword = Some(sword(2)) /\ chest[1].shield = Some(shield(2))

\* whether pick_up is to replace the equipped piece by the chest's
Replaces(equipped, found) ==
    found # None /\ (equipped = None \/ found[1].level > equipped[1].level)

\* C4: pick_up replaces the equipped sword (shield) by the chest's exactly
\* when the chest has one and the hero has none or one of a strictly lower
\* level; otherwise the equipped piece is untouched.  The returned tally
\* has the Sword (Shield) key, with count 1, exactly when it was replaced.
UpgradePolicy ==
    pc = "pick_up" =>
        LET g0 == pre.game
            c0 == pre.chest[1]
        IN  /\ game.sword = IF Replaces(g0.sword, c0.sword)
                            THEN c0.sword ELSE g0.sword
            /\ game.shield = IF Replaces(g0.shield, c0.shield)
                             THEN c0.shield ELSE g0.shield
            /\ KeySword \in DOMAIN ret.item_counts
                  <=> Replaces(g0.sword, c0.sword)
            /\ KeyShield \in DOMAIN ret.item_counts
                  <=> Replaces(g0.shield, c0.shield)
            /\ \A k \in {KeySword, KeyShield} \cap DOMAIN ret.item_counts :
                  ret.item_counts[k] = 1

UpgradePolicyWitness ==
    /\ pc = "pick_up"
    /\ pre.game.sword = Some(sword(2)) /\ pre.chest[1].sword = Some(sword(2))
    /\ pre.game.shield = Some(shield(1)) /\ pre.chest[1].shield = Some(shield(2))
    /\ game.shield = Some(shield(2))
    /\ DOMAIN ret.item_counts = {KeyShield}

\* C5: from a pool of N ring kinds, the draws that succeed number N less the
\* size of the pool left, each taking one ring out; the rings drawn are
\* pairwise distinct and, once the pool is empty, are the N kinds it started
\* with; a draw on an empty pool returns None and leaves the pool empty.
RingPoolDepletion ==
    LET drawn == pool_log.drawn
    IN  /\ Len(drawn) + Cardinality(game.ring_pool)
              = Cardinality(pool_log.seeded)
        /\ \A i, j \in DOMAIN drawn : i # j => drawn[i] # drawn[j]
        /\ Range(drawn) \cup game.ring_pool = pool_log.seeded
        /\ pc = "random_ring" =>
              IF pre.game.ring_pool = {}
              THEN ret.value = None /\ game.ring_pool = {}
              ELSE /\ ret.value # None
                   /\ ret.value[1] \in pre.game.ring_pool
                   /\ game.ring_pool = pre.game.ring_pool \ {ret.value[1]}

RingPoolDepletionWitness ==
    /\ pc = "random_ring"
    /\ Cardinality(pool_log.seeded) = 3
    /\ Len(pool_log.drawn) = 3
    /\ pre.game.ring_pool = {}
    /\ ret.value = None

\* C6: drop always returns a chest: its gold is the hero's gold, which is 0
\* afterwards; the hero's sword, shield and both ring slots are empty
\* afterwards; the chest's sword and shield are the ones that were equipped;
\* the inventory is empty afterwards and the chest's items are the inventory's
\* items, each as often as it was held, and each equipped ring as an item.
DropExtracts ==
    pc = "drop" =>
        LET g0 == pre.game
            c == ret.value
            rings == {ring_item(x) : x \in equipped_rings(g0)}
            held == UNION {Range(g0.inventory[k]) : k \in DOMAIN g0.inventory}
        IN  /\ chest = Some(c)
            /\ c.gold = g0.gold /\ game.gold = 0
            /\ game.sword = None /\ game.shield = None
            /\ game.left_ring = None /\ game.right_ring = None
            /\ c.sword = g0.sword /\ c.shield = g0.shield
            /\ DOMAIN game.inventory = {}
            /\ \A x \in Range(c.items) \cup held \cup rings :
                  ItemCount(c.items, x)
                     = HeldItem(g0.inventory, DOMAIN g0.inventory, x)
                          + (IF g0.left_ring # None /\ x = ring_item(g0.left_ring[1])
                             THEN 1 ELSE 0)
                          + (IF g0.right_ring # None /\ x = ring_item(g0.right_ring[1])
                             THEN 1 ELSE 0)

DropExtractsWitness ==
    /\ pc = "drop"
    /\ pre.game.gold > 0
    /\ pre.game.sword # None /\ pre.game.shield = None
    /\ pre.game.left_ring # None /\ pre.game.right_ring # None
    /\ Held(pre.game.inventory, key_of("Potion")) = 1
    /\ Len(ret.value.items) = 3

\* C7: generate and battle_loot return None whenever the evade ring is on,
\* and whenever the level is above distance + 10, whatever the rolls; at
\* level exactly distance + 10 without the evade ring the level gate does not
\* apply: the rolls are made, and a chest is returned exactly when one of
\* them found something.
GenerationGates ==
    Looted =>
        LET g0 == pre.game
            evaded == Some("Evade") \in {g0.left_ring, g0.right_ring}
        IN  /\ evaded => ret.value = None /\ ~ret.rolled
            /\ g0.level > g0.distance + 10 => ret.value = None /\ ~ret.rolled
            /\ ~evaded /\ g0.level = g0.distance + 10 =>
                  /\ ret.rolled
                  /\ ret.value # None <=>
                        \/ ret.gold_chest \/ ret.equipment_chest
                        \/ ret.item_chest \/ ret.ring_chest

\* a chest with gold comes back at level exactly distance + 10, no ring on
GenerationGatesWitness ==
    /\ pc = "generate"
    /\ pre.game.level = pre.game.distance + 10
    /\ pre.game.left_ring = None
    /\ pre.game.right_ring = None
    /\ ret.rolled
    /\ ret.gold_chest
    /\ ret.value # None
    /\ ret.value[1].gold = pre.game.level + pre.game.distance

\* C8: a chest returned by generate or battle_loot is never empty: it has an
\* item, or gold, or a sword, or a shield.
LootNeverEmpty ==
    Looted /\ ret.value # None =>
        \/ ret.value[1].items # <<>>
        \/ ret.value[1].gold > 0
        \/ ret.value[1].sword # None
        \/ ret.value[1].shield # None

\* C9: one call takes at most one ring out of the pool, and takes one
\* exactly when the ring roll succeeded on a pool that was not empty; a chest
\* is then returned with that ring among its items.  A ring roll that
\* succeeds on an empty pool counts for nothing: the pool stays empty, no ring
\* is in the result, and the result is None unless gold, equipment or an item
\* was found.
RingAward ==
    Looted =>
        LET before == pre.game.ring_pool
            taken == before \ game.ring_pool
            ring_items == IF ret.value = None THEN {}
                          ELSE {x \in Range(ret.value[1].items) : x.key[1] = "Ring"}
        IN  /\ game.ring_pool \subseteq before
            /\ Cardinality(taken) <= 1
            /\ taken # {} <=> (ret.ring_roll /\ before # {})
            /\ taken # {} => ret.value # None
            /\ ring_items = {ring_item(x) : x \in taken}
            /\ ret.ring_roll /\ before = {} =>
                  /\ ~ret.ring_chest
                  /\ game.ring_pool = {}
                  /\ ret.value = None <=>
                        ~(ret.gold_chest \/ ret.equipment_chest \/ ret.item_chest)

RingAwardWitness ==
    /\ pc = "generate"
    /\ ret.ring_roll
    /\ pre.game.ring_pool = {}
    /\ pool_log.drawn # <<>>
    /\ ret.value = None

\* C10: a chest returned by generate never has both a sword and a shield;
\* when the equipment roll succeeded it has exactly one piece, of level base,
\* base + 5, or (a sword only) 100, base being max(1, floor(distance/5)*5);
\* when the roll failed it has neither.
EquipmentRoll ==
    Looted /\ ret.value # None =>
        LET c == ret.value[1]
            d == pre.game.distance
            base == IF (d \div 5) * 5 >= 1 THEN (d \div 5) * 5 ELSE 1
            pieces == {e \in {c.sword, c.shield} : e # None}
        IN  /\ ~(c.sword # None /\ c.shield # None)
            /\ c.sword # None => c.sword[1].kind = "sword"
            /\ c.shield # None => c.shield[1].kind = "shield"
            /\ ret.equipment_chest =>
                  /\ Cardinality(pieces) = 1
                  /\ \A e \in pieces :
                        \/ e[1].level \in {base, base + 5}
                        \/ e[1].kind = "sword" /\ e[1].level = 100
            /\ ~ret.equipment_chest => pieces = {}

EquipmentRollWitness ==
    /\ pc = "generate"
    /\ pre.game.distance = MaxDistance
    /\ ret.equipment_chest
    /\ ret.value # None
    /\ ret.value[1].shield # None
    /\ ret.value[1].shield[1].level > 5

====
